---- MODULE Spec2Model ----
(***************************************************************************)
(* Model of arukereso_prices (src/src/main.py): the row normalizer         *)
(* process_line, the scoped remote session sftp_connection, and the main   *)
(* run (parameter loading, watermark read, selection and download loop,    *)
(* no-work exit, per-file processing loop, watermark write).               *)
(*                                                                         *)
(* Strings whose characters the code inspects (column names, remote file   *)
(* names, the name pattern) are sequences of tokens; timestamps are        *)
(* naturals (only their order is used by the code).                        *)
(***************************************************************************)
EXTENDS Integers, Sequences, FiniteSets, TLC

VARIABLES
    line,          \* process_line: the row handed to it (column -> value)
    line_pc,       \* "idle" | "call" | "returned" | "raised"
    line_dicts,    \* process_line: the returned results sequence
    pc,                 \* position of the main script
    parameters,         \* the configuration keys cfg.get_parameters() holds
    in_table,           \* the watermark input file in/tables/<name>
    previous_timestamp, \* line 147
    last_timestamp,     \* lines 149, 164
    files_to_process,   \* lines 150, 168
    ssh,                \* "none" | "created" | "connected" | "closed"
    sftp_con,           \* "none" | "open" | "closed"
    yielded,            \* sftp_connection reached its yield (the with-body ran)
    session_error,      \* the except clause of line 26 ran (logger.error, line 27)
    remote_calls,       \* calls made to the remote server, in order
    closings,           \* "sftp" / "ssh", in the order lines 31 and 33 ran
    listing,            \* what sftp.listdir_attr(folder) returned
    entry,              \* index of the loop of line 160 in listing
    downloaded,         \* names whose sftp.get (line 169) completed
    results_csv,        \* out/tables/results.csv: [opened, header, rows]
    last_timestamp_csv, \* out/tables/arukereso_last_timestamp.csv: [opened, rows]
    processing_log,     \* files of 'Processing file' (line 181), in order
    failed_log,         \* files of 'Failed to proces file' (line 186), in order
    file_lines,         \* the rows the reader yielded from each attempted file
    outcome             \* "running" | "no_work" | "completed" | "failed"

line_vars == <<line, line_pc, line_dicts>>
main_vars == <<pc, parameters, in_table, previous_timestamp, last_timestamp,
               files_to_process, ssh, sftp_con, yielded, session_error,
               remote_calls, closings, listing, entry, downloaded, results_csv,
               last_timestamp_csv, processing_log, failed_log, file_lines, outcome>>
vars == <<line_vars, main_vars>>

----------------------------------------------------------------------------
(* Bounds of the row inputs *)

\* at most this many of a row's shop-name columns are non-empty
MaxNamed == 3
\* remote listings hold at most this many entries
MaxFiles == 2
\* modification times and the prior watermark range over 0..MaxTime
MaxTime == 2
\* a downloaded file holds at most this many lines after its timestamp line
MaxRows == 2

----------------------------------------------------------------------------
(* Static configuration, main.py lines 106-138 *)

Digits == <<"1", "2", "3", "4", "5">>

COMMON_FIELDS ==
    << <<<<"ItemCode">>, "MATERIAL">>,
       <<<<"EAN">>, "EAN">>,
       <<<<"AKIdentifier">>, "CSE_ID">>,
       <<<<"AKCategoryName">>, "CATEGORY_NAME">>,
       <<<<"Rating">>, "RATING">>,
       <<<<"ReviewCount">>, "REVIEW_COUNT">> >>

HighlightedMapping(i) ==
    << <<<<"Highlighted", Digits[i], " EshopName">>, "ESHOP">>,
       <<<<"Highlighted", Digits[i], " Price">>, "PRICE">>,
       <<<<"Highlighted", Digits[i], " Stock">>, "AVAILABILITY">>,
       <<<<"Highlighted", Digits[i], " ShippingPrice">>, "SHIPPING_PRICE">> >>

HIGHLIGHTED_FIELDS == [i \in 1..3 |-> HighlightedMapping(i)]

ObservedMapping(i) ==
    << <<<<"Observed", Digits[i], " Name">>, "ESHOP">>,
       <<<<"Observed", Digits[i], " Price">>, "PRICE">>,
       <<<<"Observed", Digits[i], " Stock">>, "AVAILABILITY">>,
       <<<<"Observed", Digits[i], " ShippingPrice">>, "SHIPPING_PRICE">> >>

OBSERVED_FIELDS == [i \in 1..5 |-> ObservedMapping(i)]

CHEAPEST_FIELDS ==
    << << <<<<"Cheapest EshopName">>, "ESHOP">>,
          <<<<"Cheapest Price">>, "PRICE">>,
          <<<<"Cheapest Stock">>, "AVAILABILITY">>,
          <<<<"Cheapest ShippingPrice">>, "SHIPPING_PRICE">> >> >>

MALL_FIELDS == << << <<<<"Price">>, "PRICE">>, <<<<"Position">>, "POSITION">> >> >>

CONSTANT_FIELDS ==
    [COUNTRY |-> "HU", DISTRCHAN |-> "MA", SOURCE |-> "arukereso", FREQ |-> "d"]

\* the list walked by process_line's for loop (line 41)
AllMappings == HIGHLIGHTED_FIELDS \o OBSERVED_FIELDS \o CHEAPEST_FIELDS \o MALL_FIELDS

----------------------------------------------------------------------------
(* process_line, main.py lines 36-62 *)

\* dict helpers over ordered (key, value) pair sequences
Keys(mapping) == {mapping[i][1] : i \in 1..Len(mapping)}
Values(mapping) == {mapping[i][2] : i \in 1..Len(mapping)}
\* the key whose entry decides field f: a later entry overwrites an earlier one
KeyFor(mapping, f) ==
    LET last == CHOOSE i \in 1..Len(mapping) :
                    /\ mapping[i][2] = f
                    /\ \A j \in (i+1)..Len(mapping) : mapping[j][2] # f
    IN  mapping[last][1]

\* {**COMMON_FIELDS, **mapping} (line 42); the two key sets are disjoint
FullMapping(mapping) == COMMON_FIELDS \o mapping

\* line[key] raises KeyError when the row lacks a mapped column (lines 43-46)
RaisesKeyError(mapping, row) == \E k \in Keys(FullMapping(mapping)) : k \notin DOMAIN row

\* ShopData with the positional-rank override leaving an availability behind
ShopData_AvailabilityKept(mapping, row) ==
    LET full == FullMapping(mapping)
        extracted == [f \in Values(full) |-> row[KeyFor(full, f)]]
    IN  IF mapping = MALL_FIELDS[1]
        THEN ("ESHOP" :> "mall.hu") @@ ("AVAILABILITY" :> "instock") @@ extracted
        ELSE extracted

\* the dict comprehension of lines 43-46 followed by the override of lines 47-49
ShopData(mapping, row) ==
    LET full == FullMapping(mapping)
        extracted == [f \in Values(full) |-> row[KeyFor(full, f)]]
    IN  IF mapping = MALL_FIELDS[1]
        THEN ("ESHOP" :> "mall.hu") @@ ("AVAILABILITY" :> "") @@ extracted
        ELSE extracted

\* re.findall(r'\d+', key)[0] on a tokenised column name (lines 52-54)
FirstNumber(key) ==
    LET IsNumber(tok) == \E d \in 1..Len(Digits) : Digits[d] = tok
    IN  SelectSeq(key, IsNumber)[1]

\* Emits without the processed_eshops test
Emits_NoDedup(shop_data, processed_eshops) ==
    shop_data["ESHOP"] # ""

\* the test of line 50
Emits(shop_data, processed_eshops) ==
    /\ shop_data["ESHOP"] # ""
    /\ \A i \in 1..Len(processed_eshops) : processed_eshops[i] # shop_data["ESHOP"]

\* ShopResult with STOCK derived as "not out of stock"
ShopResult_NotOutOfStock(mapping, shop_data, kwargs) ==
    LET first_key == mapping[1][1]
        ranked == IF \E i \in 1..Len(first_key) : first_key[i] = "Highlighted"
                  THEN ("HIGHLIGHTED_POSITION" :> FirstNumber(first_key)) @@ shop_data
                  ELSE shop_data
        stocked == ("STOCK" :> (IF shop_data["AVAILABILITY"] # "outofstock" THEN 1 ELSE 0))
                   @@ ("TS" :> kwargs.file_timestamp)
                   @@ ("SOURCE_ID" :> kwargs.filename)
                   @@ ranked
    IN  stocked @@ CONSTANT_FIELDS

\* lines 51-59: the record appended for a group that passes the test of line 50
ShopResult(mapping, shop_data, kwargs) ==
    LET first_key == mapping[1][1]
        ranked == IF \E i \in 1..Len(first_key) : first_key[i] = "Highlighted"
                  THEN ("HIGHLIGHTED_POSITION" :> FirstNumber(first_key)) @@ shop_data
                  ELSE shop_data
        stocked == ("STOCK" :> (IF shop_data["AVAILABILITY"] = "instock" THEN 1 ELSE 0))
                   @@ ("TS" :> kwargs.file_timestamp)
                   @@ ("SOURCE_ID" :> kwargs.filename)
                   @@ ranked
    IN  stocked @@ CONSTANT_FIELDS

\* one iteration of the for loop of line 41 on the loop state acc
ProcessMapping(acc, mapping, row, kwargs) ==
    IF acc.raised THEN acc
    ELSE IF RaisesKeyError(mapping, row) THEN [acc EXCEPT !.raised = TRUE]
    ELSE LET shop_data == ShopData(mapping, row)
         IN  IF Emits(shop_data, acc.processed_eshops)
             THEN LET shop_result == ShopResult(mapping, shop_data, kwargs)
                  IN  [acc EXCEPT
                          !.processed_eshops = Append(@, shop_result["ESHOP"]),
                          !.results = Append(@, shop_result)]
             ELSE acc

RECURSIVE ProcessMappings(_, _, _, _)
\* the loop state after the first n mappings
ProcessMappings(n, mappings, row, kwargs) ==
    IF n = 0
    THEN [processed_eshops |-> <<>>, results |-> <<>>, raised |-> FALSE]
    ELSE ProcessMapping(ProcessMappings(n - 1, mappings, row, kwargs),
                        mappings[n], row, kwargs)

\* process_line(line, **kwargs): [raised, results]
process_line(row, kwargs) ==
    ProcessMappings(Len(AllMappings), AllMappings, row, kwargs)

----------------------------------------------------------------------------
(* Rows handed to process_line *)

AllColumns == UNION {Keys(FullMapping(AllMappings[g])) : g \in 1..Len(AllMappings)}

\* the groups whose shop-name column the bounded rows fill: the first and the
\* last group of each kind that reads its shop name from the row
\* (Highlighted1, Highlighted3, Observed1, Observed5, Cheapest)
NamedGroups == {1, 3, 4, 8, 9}
\* the groups that read shop name and stock from the row: all but MALL_FIELDS
RowGroups == 1..(Len(AllMappings) - 1)
NameColumn == [g \in RowGroups |-> KeyFor(AllMappings[g], "ESHOP")]
StockColumn == [g \in RowGroups |-> KeyFor(AllMappings[g], "AVAILABILITY")]
PriceColumn == [g \in 1..Len(AllMappings) |-> KeyFor(AllMappings[g], "PRICE")]
\* the bounded rows carry a different price in each group's price column
PriceValues == <<"100", "101", "102", "103", "104", "105", "106", "107", "108", "109">>

ShopNames == {"shopA", "shopB", "mall.hu"}
StockValues == {"instock", "outofstock"}
Positions == {"1", "7"}
\* columns a file's header may lack (none: <<>>)
DroppedColumns == {<<"Position">>, <<"EAN">>, <<"Highlighted", "3", " Price">>,
                   <<"Cheapest EshopName">>}

\* a row: shop names on the groups of named, a stock value on each of them,
\* every other shop-name and stock column empty, without the column dropped
RowOf(named, stocks, position, dropped) ==
    [c \in AllColumns \ {dropped} |->
        IF \E g \in DOMAIN named : c = NameColumn[g]
        THEN named[CHOOSE g \in DOMAIN named : c = NameColumn[g]]
        ELSE IF \E g \in DOMAIN stocks : c = StockColumn[g]
        THEN stocks[CHOOSE g \in DOMAIN stocks : c = StockColumn[g]]
        ELSE IF \E g \in RowGroups : c = NameColumn[g] \/ c = StockColumn[g]
        THEN ""
        ELSE IF c = <<"Position">> THEN position
        ELSE IF \E g \in DOMAIN PriceColumn : c = PriceColumn[g]
        THEN PriceValues[CHOOSE g \in DOMAIN PriceColumn : c = PriceColumn[g]]
        ELSE "x"]

LineKwargs == [file_timestamp |-> "2021-03-01 06:00:00", filename |-> <<"a", "1">>]

----------------------------------------------------------------------------
(* Inputs of a run *)

ParameterKeys == {"previous_timestamp_filename", "filename_pattern", "server", "port",
                  "username", "#password", "#passphrase", "#key", "wanted_columns"}
\* the configurations of the bounded runs: complete, or lacking one key
ParameterSets == {ParameterKeys} \cup {ParameterKeys \ {k} : k \in ParameterKeys}

\* the values the complete configuration gives to the keys the script inspects
FilenamePattern == <<"a">>
WantedColumns == <<"ESHOP", "PRICE", "STOCK", "HIGHLIGHTED_POSITION", "SOURCE_ID", "COUNTRY">>

\* remote file names, tokenised: two start with the pattern, one does not
FileNames == {<<"a", "1">>, <<"a", "2">>, <<"b", "1">>}
Times == 0..MaxTime

\* in/tables/<previous_timestamp_filename>: absent, a header with no data row,
\* a data row that is no float, or a data row holding a float
InTables == {[kind |-> k, value |-> 0] : k \in {"absent", "nodata", "malformed"}}
            \cup {[kind |-> "float", value |-> w] : w \in Times}

\* what listdir_attr can return: entries with distinct names
Listings ==
    UNION {{l \in [1..n -> [filename : FileNames, st_mtime : Times \ {0}]] :
                \A i, j \in 1..n : i # j => l[i].filename # l[j].filename} :
           n \in 0..MaxFiles}

\* the rows the csv reader yields from a local file: the end-to-end row of the
\* specification, and the same row of a file whose header lacks Position
E2ERow == RowOf((1 :> "shopA") @@ (4 :> "shopA") @@ (9 :> "shopB"),
                (1 :> "instock") @@ (4 :> "outofstock") @@ (9 :> "instock"),
                "1", <<>>)
NoPositionRow == [c \in AllColumns \ {<<"Position">>} |-> E2ERow[c]]
FeedRows == {E2ERow, NoPositionRow}
FileContents == UNION {[1..n -> FeedRows] : n \in 0..MaxRows}

FileTimestamp == "2021-03-01 06:00:00"

\* process_line on each row a file can hold, by file name (lines 72-74)
LineDicts ==
    [name \in FileNames |->
        [row \in FeedRows |->
            process_line(row, [file_timestamp |-> FileTimestamp, filename |-> name])]]

----------------------------------------------------------------------------
(* Specification of process_line on the bounded rows *)

MainIdle ==
    /\ pc = "idle"
    /\ parameters = ParameterKeys
    /\ in_table = [kind |-> "float", value |-> 0]
    /\ previous_timestamp = 0
    /\ last_timestamp = 0
    /\ files_to_process = <<>>
    /\ ssh = "none"
    /\ sftp_con = "none"
    /\ yielded = FALSE
    /\ session_error = FALSE
    /\ remote_calls = <<>>
    /\ closings = <<>>
    /\ listing = <<>>
    /\ entry = 1
    /\ downloaded = {}
    /\ results_csv = [opened |-> FALSE, header |-> <<>>, rows |-> <<>>]
    /\ last_timestamp_csv = [opened |-> FALSE, rows |-> <<>>]
    /\ processing_log = <<>>
    /\ failed_log = <<>>
    /\ file_lines = <<>>
    /\ outcome = "running"

InitLine ==
    /\ \E S \in SUBSET NamedGroups :
         /\ Cardinality(S) <= MaxNamed
         /\ \E named \in [S -> ShopNames], stocks \in [S -> StockValues],
               position \in Positions, dropped \in DroppedColumns \cup {<<>>} :
              /\ dropped # <<>> => Cardinality(S) <= 1
              /\ line = RowOf(named, stocks, position, dropped)
    /\ line_pc = "call"
    /\ line_dicts = <<>>
    /\ MainIdle

\* one call process_line(line, file_timestamp=..., filename=...)
ProcessLine ==
    /\ line_pc = "call"
    /\ LET out == process_line(line, LineKwargs)
       IN  \/ /\ ~out.raised
              /\ line_pc' = "returned"
              /\ line_dicts' = out.results
           \/ /\ out.raised
              /\ line_pc' = "raised"
              /\ line_dicts' = <<>>
    /\ UNCHANGED <<line, main_vars>>

NextLine == ProcessLine

SpecLine == InitLine /\ [][NextLine]_vars

----------------------------------------------------------------------------
(* The main script, main.py lines 78-192 *)

Last(seq) == seq[Len(seq)]

\* file.filename.startswith(filename_pattern) on tokenised names (line 162)
StartsWith(name, pattern) ==
    /\ Len(pattern) <= Len(name)
    /\ SubSeq(name, 1, Len(pattern)) = pattern

\* Selected without the name-pattern test
Selected_AnyName(file, previous, pattern) ==
    file.st_mtime > previous

\* the condition of line 162
Selected(file, previous, pattern) ==
    /\ file.st_mtime > previous
    /\ StartsWith(file.filename, pattern)

\* lines 163-164
RaisedTimestamp(last, modified_time) ==
    IF modified_time > last THEN modified_time ELSE last

\* a process-ending exception, or sys.exit
Terminate(how) ==
    /\ outcome' = how
    /\ pc' = "done"

ExitStatus == IF outcome \in {"no_work", "completed"} THEN 0 ELSE 1

Init ==
    /\ line = <<>>
    /\ line_pc = "idle"
    /\ line_dicts = <<>>
    /\ pc = "load_parameters"
    /\ parameters \in ParameterSets
    /\ in_table \in InTables
    /\ previous_timestamp = 0
    /\ last_timestamp = 0
    /\ files_to_process = <<>>
    /\ ssh = "none"
    /\ sftp_con = "none"
    /\ yielded = FALSE
    /\ session_error = FALSE
    /\ remote_calls = <<>>
    /\ closings = <<>>
    /\ listing = <<>>
    /\ entry = 1
    /\ downloaded = {}
    /\ results_csv = [opened |-> FALSE, header |-> <<>>, rows |-> <<>>]
    /\ last_timestamp_csv = [opened |-> FALSE, rows |-> <<>>]
    /\ processing_log = <<>>
    /\ failed_log = <<>>
    /\ file_lines = <<>>
    /\ outcome = "running"

\* lines 94-102: parameters.get(key) gives None for a missing key; only
\* int(None) raises
LoadParameters ==
    /\ pc = "load_parameters"
    /\ IF "port" \notin parameters
       THEN Terminate("failed")
       ELSE pc' = "read_watermark" /\ UNCHANGED outcome
    /\ UNCHANGED <<line_vars, parameters, in_table, previous_timestamp, last_timestamp,
                   files_to_process, ssh, sftp_con, yielded, session_error,
                   remote_calls, closings, listing, entry, downloaded, results_csv,
                   last_timestamp_csv, processing_log, failed_log, file_lines>>

\* lines 140-154: open() raises for a file that is not there (with the key
\* missing the path names in/tables/None), [0] or float() raise for a file
\* without a float in its first data row
ReadWatermark ==
    /\ pc = "read_watermark"
    /\ IF "previous_timestamp_filename" \notin parameters \/ in_table.kind # "float"
       THEN /\ Terminate("failed")
            /\ UNCHANGED <<previous_timestamp, last_timestamp, files_to_process>>
       ELSE /\ previous_timestamp' = in_table.value
            /\ last_timestamp' = in_table.value
            /\ files_to_process' = <<>>
            /\ pc' = "sftp_connection"
            /\ UNCHANGED outcome
    /\ UNCHANGED <<line_vars, parameters, in_table, ssh, sftp_con, yielded,
                   session_error, remote_calls, closings, listing, entry, downloaded,
                   results_csv, last_timestamp_csv, processing_log, failed_log,
                   file_lines>>

\* sftp_connection lines 16-20: the client is created, then the private key is
\* loaded outside the try block, so a failure there leaves the function at once
EnterSession ==
    /\ pc = "sftp_connection"
    /\ ssh' = "created"
    /\ \/ /\ "#key" \in parameters
          /\ pc' = "connect"
          /\ UNCHANGED outcome
       \/ Terminate("failed")
    /\ UNCHANGED <<line_vars, parameters, in_table, previous_timestamp, last_timestamp,
                   files_to_process, sftp_con, yielded, session_error, remote_calls,
                   closings, listing, entry, downloaded, results_csv,
                   last_timestamp_csv, processing_log, failed_log, file_lines>>

\* lines 26-27: any exception raised inside the try block, before or after the
\* yield, is logged and swallowed
SessionExcept ==
    /\ session_error' = TRUE
    /\ pc' = "finally"

\* lines 22-23
Connect ==
    /\ pc = "connect"
    /\ remote_calls' = Append(remote_calls, "connect")
    /\ \/ /\ ssh' = "connected"
          /\ pc' = "open_sftp"
          /\ UNCHANGED session_error
       \/ /\ SessionExcept
          /\ UNCHANGED ssh
    /\ UNCHANGED <<line_vars, parameters, in_table, previous_timestamp, last_timestamp,
                   files_to_process, sftp_con, yielded, closings, listing, entry,
                   downloaded, results_csv, last_timestamp_csv, processing_log,
                   failed_log, file_lines, outcome>>

\* lines 24-25
OpenSftp ==
    /\ pc = "open_sftp"
    /\ remote_calls' = Append(remote_calls, "open_sftp")
    /\ \/ /\ sftp_con' = "open"
          /\ yielded' = TRUE
          /\ pc' = "listdir"
          /\ UNCHANGED session_error
       \/ /\ SessionExcept
          /\ UNCHANGED <<sftp_con, yielded>>
    /\ UNCHANGED <<line_vars, parameters, in_table, previous_timestamp, last_timestamp,
                   files_to_process, ssh, closings, listing, entry, downloaded,
                   results_csv, last_timestamp_csv, processing_log, failed_log,
                   file_lines, outcome>>

\* line 160: sftp.listdir_attr(folder), inside the with-body
ListDir ==
    /\ pc = "listdir"
    /\ remote_calls' = Append(remote_calls, "listdir_attr")
    /\ \/ /\ listing' \in Listings
          /\ entry' = 1
          /\ pc' = "loop"
          /\ UNCHANGED session_error
       \/ /\ SessionExcept
          /\ UNCHANGED <<listing, entry>>
    /\ UNCHANGED <<line_vars, parameters, in_table, previous_timestamp, last_timestamp,
                   files_to_process, ssh, sftp_con, yielded, closings, downloaded,
                   results_csv, last_timestamp_csv, processing_log, failed_log,
                   file_lines, outcome>>

\* lines 160-169: one iteration of the selection and download loop
LoopEntry ==
    /\ pc = "loop"
    /\ entry <= Len(listing)
    /\ LET file == listing[entry]
           modified_time == file.st_mtime
       IN  IF modified_time > previous_timestamp /\ "filename_pattern" \notin parameters
           THEN \* startswith(None) raises TypeError
                /\ SessionExcept
                /\ UNCHANGED <<last_timestamp, files_to_process, remote_calls,
                               downloaded, entry>>
           ELSE IF Selected(file, previous_timestamp, FilenamePattern)
           THEN /\ last_timestamp' = RaisedTimestamp(last_timestamp, modified_time)
                /\ files_to_process' = Append(files_to_process, file.filename)
                /\ remote_calls' = Append(remote_calls, "get")
                /\ \/ /\ downloaded' = downloaded \cup {file.filename}
                      /\ entry' = entry + 1
                      /\ UNCHANGED <<pc, session_error>>
                   \/ /\ SessionExcept
                      /\ UNCHANGED <<downloaded, entry>>
           ELSE /\ entry' = entry + 1
                /\ UNCHANGED <<last_timestamp, files_to_process, remote_calls,
                               downloaded, pc, session_error>>
    /\ UNCHANGED <<line_vars, parameters, in_table, previous_timestamp, ssh, sftp_con,
                   yielded, closings, listing, results_csv, last_timestamp_csv,
                   processing_log, failed_log, file_lines, outcome>>

\* lines 28-33, entered after the except clause or when the with-body ends;
\* a generator that never yielded makes the with statement raise RuntimeError,
\* a swallowed exception of the with-body lets the script go on at line 171
SessionFinally ==
    /\ \/ pc = "finally"
       \/ pc = "loop" /\ entry > Len(listing)
    /\ IF sftp_con # "none"
       THEN /\ sftp_con' = "closed"
            /\ closings' = closings \o <<"sftp", "ssh">>
       ELSE /\ closings' = Append(closings, "ssh")
            /\ UNCHANGED sftp_con
    /\ ssh' = "closed"
    /\ IF yielded
       THEN pc' = "check_files" /\ UNCHANGED outcome
       ELSE Terminate("failed")
    /\ UNCHANGED <<line_vars, parameters, in_table, previous_timestamp, last_timestamp,
                   files_to_process, yielded, session_error, remote_calls, listing,
                   entry, downloaded, results_csv, last_timestamp_csv, processing_log,
                   failed_log, file_lines>>

\* CheckFiles without the exit of line 173
CheckFiles_NoExit ==
    /\ pc = "check_files"
    /\ pc' = "open_results"
    /\ UNCHANGED <<line_vars, parameters, in_table, previous_timestamp, last_timestamp,
                   files_to_process, ssh, sftp_con, yielded, session_error,
                   remote_calls, closings, listing, entry, downloaded, results_csv,
                   last_timestamp_csv, processing_log, failed_log, file_lines, outcome>>

\* lines 171-175
CheckFiles ==
    /\ pc = "check_files"
    /\ IF files_to_process = <<>>
       THEN Terminate("no_work")
       ELSE pc' = "open_results" /\ UNCHANGED outcome
    /\ UNCHANGED <<line_vars, parameters, in_table, previous_timestamp, last_timestamp,
                   files_to_process, ssh, sftp_con, yielded, session_error,
                   remote_calls, closings, listing, entry, downloaded, results_csv,
                   last_timestamp_csv, processing_log, failed_log, file_lines>>

\* lines 177-179: open(..., 'w+') creates or truncates the table; writeheader
\* raises TypeError when wanted_columns is None
OpenResults ==
    /\ pc = "open_results"
    /\ IF "wanted_columns" \notin parameters
       THEN /\ results_csv' = [opened |-> TRUE, header |-> <<>>, rows |-> <<>>]
            /\ Terminate("failed")
       ELSE /\ results_csv' = [opened |-> TRUE, header |-> WantedColumns, rows |-> <<>>]
            /\ pc' = "process"
            /\ UNCHANGED outcome
    /\ UNCHANGED <<line_vars, parameters, in_table, previous_timestamp, last_timestamp,
                   files_to_process, ssh, sftp_con, yielded, session_error,
                   remote_calls, closings, listing, entry, downloaded,
                   last_timestamp_csv, processing_log, failed_log, file_lines>>

\* csv.DictWriter.writerows with extrasaction='ignore' (lines 178, 184)
WrittenRow(fieldnames, record) ==
    [i \in 1..Len(fieldnames) |->
        IF fieldnames[i] \in DOMAIN record THEN record[fieldnames[i]] ELSE ""]
WrittenRows(fieldnames, records) ==
    [i \in 1..Len(records) |-> WrittenRow(fieldnames, records[i])]

RECURSIVE WriteFile_RowsLostOnError(_, _, _, _, _)
\* WriteFile losing the rows written so far when a row raises
WriteFile_RowsLostOnError(name, lines, k, fieldnames, rows) ==
    IF k > Len(lines) THEN [rows |-> rows, raised |-> FALSE]
    ELSE LET out == LineDicts[name][lines[k]]
         IN  IF out.raised THEN [rows |-> <<>>, raised |-> TRUE]
             ELSE WriteFile_RowsLostOnError(name, lines, k + 1, fieldnames,
                                            rows \o WrittenRows(fieldnames, out.results))

RECURSIVE WriteFile(_, _, _, _, _)
\* lines 183-184 over get_file_dicts (lines 65-75) from line k of the file on:
\* the rows written so far and whether an exception ended the loop
WriteFile(name, lines, k, fieldnames, rows) ==
    IF k > Len(lines) THEN [rows |-> rows, raised |-> FALSE]
    ELSE LET out == LineDicts[name][lines[k]]
         IN  IF out.raised THEN [rows |-> rows, raised |-> TRUE]
             ELSE WriteFile(name, lines, k + 1, fieldnames,
                            rows \o WrittenRows(fieldnames, out.results))

\* lines 71-72: the rows the reader yields before the loop of line 183 ends:
\* all of them, or those up to the first one process_line raises on
RowsRead(name, lines) ==
    LET raising == {k \in 1..Len(lines) : LineDicts[name][lines[k]].raised}
    IN  IF raising = {} THEN lines
        ELSE SubSeq(lines, 1, CHOOSE k \in raising : \A j \in raising : k <= j)

\* lines 180-186: one iteration of the processing loop. open() or the reader
\* may raise on any file (missing, undecodable, malformed); a file whose
\* download completed or not may hold any rows
ProcessFile ==
    /\ pc = "process"
    /\ Len(processing_log) < Len(files_to_process)
    /\ LET file == files_to_process[Len(processing_log) + 1]
       IN  /\ processing_log' = Append(processing_log, file)
           /\ \E readable \in BOOLEAN, lines \in FileContents :
                /\ ~readable => lines = <<>>
                /\ file_lines' = Append(file_lines, [readable |-> readable,
                                                     lines |-> RowsRead(file, lines)])
                /\ IF ~readable
                   THEN /\ failed_log' = Append(failed_log, file)
                        /\ UNCHANGED results_csv
                   ELSE LET done == WriteFile(file, lines, 1, results_csv.header,
                                              results_csv.rows)
                        IN  /\ results_csv' = [results_csv EXCEPT !.rows = done.rows]
                            /\ failed_log' = IF done.raised
                                             THEN Append(failed_log, file)
                                             ELSE failed_log
    /\ UNCHANGED <<line_vars, pc, parameters, in_table, previous_timestamp,
                   last_timestamp, files_to_process, ssh, sftp_con, yielded,
                   session_error, remote_calls, closings, listing, entry, downloaded,
                   last_timestamp_csv, outcome>>

\* lines 188-192, once the loop of line 180 is exhausted
WriteLastTimestamp ==
    /\ pc = "process"
    /\ Len(processing_log) = Len(files_to_process)
    /\ last_timestamp_csv' = [opened |-> TRUE, rows |-> <<last_timestamp>>]
    /\ Terminate("completed")
    /\ UNCHANGED <<line_vars, parameters, in_table, previous_timestamp, last_timestamp,
                   files_to_process, ssh, sftp_con, yielded, session_error,
                   remote_calls, closings, listing, entry, downloaded, results_csv,
                   processing_log, failed_log, file_lines>>

Next ==
    \/ LoadParameters
    \/ ReadWatermark
    \/ EnterSession
    \/ Connect
    \/ OpenSftp
    \/ ListDir
    \/ LoopEntry
    \/ SessionFinally
    \/ CheckFiles
    \/ OpenResults
    \/ ProcessFile
    \/ WriteLastTimestamp

Spec == Init /\ [][Next]_vars

----------------------------------------------------------------------------
(* Properties of process_line, checked under SpecLine *)

Groups == 1..Len(AllMappings)
MallGroup == Len(AllMappings)

\* the shop name group g resolves to on the current row: its shop-name column,
\* or the fixed retailer name for the positional-rank group
ResolvedShop(g) ==
    IF g = MallGroup THEN "mall.hu" ELSE line[NameColumn[g]]

\* record r was produced by group g: it carries g's shop name and g's price
\* column (the bounded rows hold a different price in every price column)
FromGroup(r, g) ==
    /\ r["ESHOP"] = ResolvedShop(g)
    /\ r["PRICE"] = line[PriceColumn[g]]

\* the group a record was produced by
GroupOf(r) == CHOOSE g \in Groups : FromGroup(r, g)

\* C1: for a row normalized without error, a group produces a record if and
\* only if its resolved shop name is non-empty and no earlier group resolved
\* to the same name; every record comes from a group, in the groups' order,
\* and no two records share an ESHOP.
C1_FirstGroupPerShopWins ==
    line_pc = "returned" =>
        /\ \A g \in Groups :
             (\E i \in 1..Len(line_dicts) : FromGroup(line_dicts[i], g))
             <=> /\ ResolvedShop(g) # ""
                 /\ \A h \in 1..(g - 1) : ResolvedShop(h) # ResolvedShop(g)
        /\ \A i \in 1..Len(line_dicts) : \E g \in Groups : FromGroup(line_dicts[i], g)
        /\ \A i, j \in 1..Len(line_dicts) :
             i < j => /\ line_dicts[i]["ESHOP"] # line_dicts[j]["ESHOP"]
                      /\ GroupOf(line_dicts[i]) < GroupOf(line_dicts[j])

\* a returned row on which two groups name the same shop and a third another
C1_Witness ==
    /\ line_pc = "returned"
    /\ \E g, h \in NamedGroups :
         /\ g < h
         /\ ResolvedShop(g) # ""
         /\ ResolvedShop(g) = ResolvedShop(h)
    /\ Len(line_dicts) >= 3

\* the row of the end-to-end example (any Position)
IsE2ERow == \E p \in Positions : line = [E2ERow EXCEPT ![<<"Position">>] = p]

\* the two records the example names, as the first two of the result
E2ERecords ==
    /\ Len(line_dicts) >= 2
    /\ LET a == line_dicts[1]
           b == line_dicts[2]
       IN  /\ a["ESHOP"] = "shopA"
           /\ a["PRICE"] = "100"
           /\ a["HIGHLIGHTED_POSITION"] = "1"
           /\ a["AVAILABILITY"] = "instock"
           /\ a["STOCK"] = 1
           /\ b["ESHOP"] = "shopB"
           /\ b["PRICE"] = line[<<"Cheapest Price">>]
           /\ b["AVAILABILITY"] = "instock"
           /\ b["STOCK"] = 1
           /\ "HIGHLIGHTED_POSITION" \notin DOMAIN b
    /\ \A i \in 1..Len(line_dicts) :
         line_dicts[i]["PRICE"] # line[<<"Observed", "1", " Price">>]

\* C5 as stated: the end-to-end row yields exactly the shopA and shopB records.
C5_ExactlyTwoRecords ==
    (line_pc = "returned" /\ IsE2ERow) => (E2ERecords /\ Len(line_dicts) = 2)

\* C5 amended: the end-to-end row yields exactly three records: shopA from
\* Highlighted1 (rank 1, STOCK 1, AVAILABILITY instock), shopB from Cheapest
\* (STOCK 1), and the 'mall.hu' record of the positional-rank group (empty
\* AVAILABILITY, STOCK 0); the Observed1 entry for shopA is suppressed.
C5_TwoRecordsAndMall ==
    (line_pc = "returned" /\ IsE2ERow) =>
        /\ E2ERecords
        /\ Len(line_dicts) = 3
        /\ line_dicts[3]["ESHOP"] = "mall.hu"
        /\ line_dicts[3]["AVAILABILITY"] = ""
        /\ line_dicts[3]["STOCK"] = 0
        /\ line_dicts[3]["POSITION"] = line[<<"Position">>]

C5_Witness == line_pc = "returned" /\ IsE2ERow /\ Len(line_dicts) > 0

\* C9: every row normalized without error yields exactly one 'mall.hu' record;
\* a record of the positional-rank group (the only one with a POSITION) has
\* shop name 'mall.hu', empty AVAILABILITY, STOCK 0 and the row's Position;
\* the 'mall.hu' record is that group's unless an earlier group resolved to
\* 'mall.hu', and then it is the first such group's.
C9_OneMallRecord ==
    line_pc = "returned" =>
        /\ Len(line_dicts) >= 1
        /\ Cardinality({i \in 1..Len(line_dicts) : line_dicts[i]["ESHOP"] = "mall.hu"}) = 1
        /\ \A i \in 1..Len(line_dicts) :
             LET r == line_dicts[i]
                 earlier == {g \in Groups \ {MallGroup} : ResolvedShop(g) = "mall.hu"}
             IN  /\ "POSITION" \in DOMAIN r =>
                        /\ r["ESHOP"] = "mall.hu"
                        /\ r["AVAILABILITY"] = ""
                        /\ r["STOCK"] = 0
                        /\ r["POSITION"] = line[<<"Position">>]
                        /\ r["PRICE"] = line[<<"Price">>]
                 /\ r["ESHOP"] = "mall.hu" =>
                        IF earlier = {}
                        THEN "POSITION" \in DOMAIN r
                        ELSE /\ "POSITION" \notin DOMAIN r
                             /\ \E g \in earlier :
                                  /\ \A h \in earlier : g <= h
                                  /\ FromGroup(r, g)

\* a returned row naming other shops whose last record is the positional one
C9_Witness ==
    /\ line_pc = "returned"
    /\ Len(line_dicts) >= 2
    /\ "POSITION" \in DOMAIN Last(line_dicts)
    /\ Last(line_dicts)["ESHOP"] = "mall.hu"

----------------------------------------------------------------------------
(* Properties of the run, checked under Spec *)

Max(S) == CHOOSE m \in S : \A n \in S : n <= m

\* the listed entries the selection contract names: newer than the prior
\* watermark, with a name whose first token is the pattern's
Eligible ==
    {i \in 1..Len(listing) :
        /\ listing[i].st_mtime > previous_timestamp
        /\ listing[i].filename[1] = "a"}

\* C2: after a session without error, the watermark written is >= the prior
\* one and is the maximum of the prior one and the modification times of the
\* listed files that are newer than it and start with the pattern.
C2_WatermarkIsMaxOfSelected ==
    (last_timestamp_csv.opened /\ ~session_error) =>
        /\ Len(last_timestamp_csv.rows) = 1
        /\ last_timestamp_csv.rows[1] >= previous_timestamp
        /\ last_timestamp_csv.rows[1] =
               Max({previous_timestamp} \cup {listing[i].st_mtime : i \in Eligible})
        /\ Len(files_to_process) = Cardinality(Eligible)
        /\ \A i \in Eligible : \E k \in 1..Len(files_to_process) :
               files_to_process[k] = listing[i].filename

\* a written watermark below the time of a listed file that lacks the pattern
C2_Witness ==
    /\ last_timestamp_csv.opened
    /\ ~session_error
    /\ \E i \in 1..Len(listing) :
         /\ listing[i].filename[1] # "a"
         /\ listing[i].st_mtime > last_timestamp_csv.rows[1]
    /\ last_timestamp_csv.rows[1] > previous_timestamp

\* C3: while no file is selected neither output file is opened, and a run whose
\* session body ran and selected nothing ends in the no-work exit, status 0.
C3_NoWorkWritesNothing ==
    /\ files_to_process = <<>> =>
          /\ ~results_csv.opened
          /\ ~last_timestamp_csv.opened
    /\ (pc = "done" /\ yielded /\ files_to_process = <<>>) =>
          /\ outcome = "no_work"
          /\ ExitStatus = 0

\* a finished run whose listing held files, none newer than the watermark
C3_Witness ==
    /\ pc = "done"
    /\ outcome = "no_work"
    /\ ~session_error
    /\ listing # <<>>
    /\ \A i \in 1..Len(listing) : listing[i].st_mtime <= previous_timestamp

\* a row process_line fails on: it lacks a column the mappings name
FailingRow(row) == \E c \in AllColumns : c \notin DOMAIN row
\* the rows of a file read before its first failing row
RowsBeforeFailure(lines) ==
    LET failing == {k \in 1..Len(lines) : FailingRow(lines[k])}
        first == CHOOSE k \in failing : \A j \in failing : k <= j
    IN  IF failing = {} THEN lines ELSE SubSeq(lines, 1, first - 1)
FileFails(content) ==
    \/ ~content.readable
    \/ \E k \in 1..Len(content.lines) : FailingRow(content.lines[k])

RECURSIVE RowsOfLines(_, _)
\* the rows written for the given rows of file name
RowsOfLines(name, lines) ==
    IF lines = <<>> THEN <<>>
    ELSE WrittenRows(WantedColumns, LineDicts[name][Head(lines)].results)
         \o RowsOfLines(name, Tail(lines))

RECURSIVE RowsOfFiles(_)
\* the rows the first n attempted files leave in the output table
RowsOfFiles(n) ==
    IF n = 0 THEN <<>>
    ELSE RowsOfFiles(n - 1)
         \o RowsOfLines(processing_log[n], RowsBeforeFailure(file_lines[n].lines))

\* C4: the selected files are attempted once each in selection order; the
\* output table holds, for every attempted file, the records of its rows up to
\* its first failing row, whatever happened to the files before it; every
\* failing file is logged; and once the processing loop has begun the run ends
\* only by writing the watermark file.
C4_FileFailureAbandonsOnlyThatFile ==
    /\ Len(processing_log) <= Len(files_to_process)
    /\ processing_log = SubSeq(files_to_process, 1, Len(processing_log))
    /\ Len(file_lines) = Len(processing_log)
    /\ results_csv.rows = RowsOfFiles(Len(processing_log))
    /\ LET Failed(f) == \E n \in 1..Len(processing_log) :
                            processing_log[n] = f /\ FileFails(file_lines[n])
       IN  failed_log = SelectSeq(processing_log, Failed)
    /\ (pc = "done" /\ results_csv.header # <<>>) =>
          /\ outcome = "completed"
          /\ processing_log = files_to_process
          /\ last_timestamp_csv = [opened |-> TRUE, rows |-> <<last_timestamp>>]

\* a completed run whose first file failed on its second row and whose second
\* file was written after it
C4_Witness ==
    /\ pc = "done"
    /\ outcome = "completed"
    /\ Len(files_to_process) = 2
    /\ failed_log = <<files_to_process[1]>>
    /\ file_lines[1].lines = <<E2ERow, NoPositionRow>>
    /\ file_lines[2].lines = <<E2ERow>>
    /\ Len(results_csv.rows) = 6
    /\ last_timestamp_csv.opened

\* C6 as stated: whenever sftp_connection was entered, the run ends with ssh
\* closed, sftp closed iff it was opened, and sftp closed before ssh.
C6_SessionClosedOnEveryExit ==
    (pc = "done" /\ ssh # "none") =>
        /\ ssh = "closed"
        /\ sftp_con \in {"none", "closed"}
        /\ closings = IF sftp_con = "closed" THEN <<"sftp", "ssh">> ELSE <<"ssh">>

\* C7 as stated: with a missing or malformed watermark file or a missing
\* configuration key no remote call is ever made and the run ends as a failure.
C7_StartupErrorAbortsBeforeRemote ==
    (parameters # ParameterKeys \/ in_table.kind # "float") =>
        /\ remote_calls = <<>>
        /\ pc = "done" => outcome = "failed"

\* C8 as stated: a run whose session failed ends as a failure, never in the
\* no-work exit and never in file processing.
C8_SessionFailureIsFatal ==
    session_error =>
        /\ pc \notin {"check_files", "open_results", "process"}
        /\ ~results_csv.opened
        /\ pc = "done" => outcome = "failed"

\* C10 as stated: a written watermark is below the modification time of every
\* selected file whose download did not complete.
C10_WatermarkOnlyFromFetched ==
    last_timestamp_csv.opened =>
        \A i \in Eligible :
            listing[i].filename \notin downloaded =>
                last_timestamp_csv.rows[1] < listing[i].st_mtime

====
